---- MODULE Spec2Model ----
(***************************************************************************)
(* Model of the real-time channel clients of ConvoSphere's browser layer:  *)
(*   ws   : the user-scoped WebSocketManager   (static/js/websocket.js)    *)
(*   room : the room-scoped ChatRoomManager    (chat room page script)     *)
(* Each manager is one record: the object's fields together with the       *)
(* browser resources it created (its sockets, its interval and timeout     *)
(* timers).  Every callback of the event loop is one atomic action.        *)
(*                                                                         *)
(* The browser's WebSocket is modelled as the WebSocket API defines it:    *)
(*   readyState CONNECTING -> OPEN (open event) or -> CLOSED (the          *)
(*   connection failed: close event with wasClean = false);                *)
(*   OPEN -> CLOSING when either side starts the closing handshake;        *)
(*   OPEN/CLOSING -> CLOSED (close event, wasClean true or false);         *)
(*   close() on a CONNECTING socket fails the connection (unclean close);  *)
(*   send() throws InvalidStateError while CONNECTING, transmits while     *)
(*   OPEN, and silently discards while CLOSING or CLOSED.                  *)
(***************************************************************************)
EXTENDS Integers, Sequences, FiniteSets, TLC

VARIABLES ws, room, last, page, store, deb, acct, search, cyc

vars == <<ws, room, last, page, store, deb, acct, search, cyc>>

\* The state of the helpers that use no socket.
utilVars == <<store, deb, acct, search, cyc>>

\* ------------------------------------------------------------------ bounds
\* Sockets of one manager that may be open or opening at the same time (the
\* code has no cap; closed sockets are unreachable and are not kept).
MaxSockets == 2

\* The count of consecutive failed connections of the room channel is kept up
\* to this number (the code keeps no count and never stops retrying).
MaxRoomRun == 3

\* Stop-typing timeouts of the page that may be pending at the same time (the
\* code has no cap and keeps no handle to them).
MaxStops == 2

\* The clock of the expiring store runs from 0 to MaxTime ms, and entries are
\* written with a time to live of 0..MaxTtl ms.
MaxTime == 4
MaxTtl == 2

\* The wait of the debounced function, in time units, and the number of calls
\* since the function last ran that is counted.
DebounceWait == 3
MaxBurst == 2

\* Notification-settings requests that may be in flight at the same time (the
\* code has no cap: the checkbox stays enabled while a request is pending).
MaxRequests == 3

\* User-search requests that may be in flight at the same time (the code has
\* no cap: every input event of two characters or more sends one).
MaxSearches == 2

\* Unclean closes of the user channel counted in one run of the
\* open-then-drop scenario; above maxReconnectAttempts, so that the run is
\* longer than the one that ends in the connection-lost notice.
MaxCycles == 7

\* ------------------------------------------------------- program constants
maxReconnectAttempts == 5
reconnectInterval == 5000
roomReconnectDelay == 3000
typingDebounceWait == 300
typingStopDelay == 3000

\* ------------------------------------------------------------ the browser
CONNECTING == "CONNECTING"
OPEN == "OPEN"
CLOSING == "CLOSING"
CLOSED == "CLOSED"

\* A socket as `new WebSocket(url)` returns it; established records whether
\* the opening handshake has completed (the open event has fired).
NewSocket == [readyState |-> CONNECTING, established |-> FALSE]

\* The operation now running, the input it was given, and what it has done
\* that its caller can observe: whether an exception escaped it, the frames it
\* handed to an open transport and the message handlers it invoked.
Begin(m, name, input) ==
    m @@ [op |-> name, arg |-> input, threw |-> FALSE, sent |-> <<>>, ran |-> <<>>]

EffectFields == {"op", "arg", "threw", "sent", "ran"}

NoArg == <<>>

Effects(w) == [f \in EffectFields |-> w[f]]

Fields(w) == [f \in (DOMAIN w) \ EffectFields |-> w[f]]

\* socket.close(): starts the closing handshake of an open socket, fails a
\* connection that is still being established, and is a no-op otherwise.
SocketClose(s) ==
    IF s.readyState \in {CONNECTING, OPEN} THEN [s EXCEPT !.readyState = CLOSING] ELSE s

\* The values event.wasClean can take when socket s closes: only a connection
\* that was established can complete the closing handshake.
WasCleanChoices(s) == IF s.established THEN BOOLEAN ELSE {FALSE}

\* socket.send(frame) on socket i of manager record w: InvalidStateError while
\* CONNECTING, transmission while OPEN, silently discarded otherwise.
SocketSend(w, i, frame) ==
    CASE w.sockets[i].readyState = CONNECTING -> [w EXCEPT !.threw = TRUE]
      [] w.sockets[i].readyState = OPEN -> [w EXCEPT !.sent = Append(@, frame)]
      [] OTHER -> w

\* The sockets of manager m that are not closed.
LiveSockets(m) == {i \in DOMAIN m.sockets : m.sockets[i].readyState # CLOSED}

\* `this.socket = new WebSocket(url)`: the new socket becomes sockets' last
\* element and this.socket refers to it.  Closed sockets are dropped at this
\* point: nothing refers to them any more and no event fires on them.
CreateSocket(w) ==
    LET kept == SelectSeq(w.sockets, LAMBDA s : s.readyState # CLOSED)
    IN [w EXCEPT !.sockets = Append(kept, NewSocket), !.socket = Len(kept) + 1]

\* ------------------------------------------------- WebSocketManager (ws)
\* Fields: socket (0 is null, else an index into sockets), reconnectAttempts,
\* heartbeatTimer (TRUE when the handle is set).  Browser resources: sockets
\* (every socket the manager created), intervals (live heartbeat intervals),
\* timeouts (delays of the pending reconnect timeouts), notices (times the
\* connection-lost notice was raised), urlOk (whether `new WebSocket(wsUrl)`
\* succeeds: a property of the immutable wsUrl and of the page).
\* Observers: uncleanRun (unclean closes since the last open) and delays
\* (delays of the reconnects scheduled since the last open).
WSFrames == {"heartbeat", "typing:true", "typing:false", "status_update"}


\* A bug of the dispatcher: the default arm falls into a handler.
WSHandlerOf_noDefault(type) ==
    IF type \in {"user_status"} THEN <<"handleUserStatus">>
    ELSE IF type = "notification" THEN <<"handleNotification">>
    ELSE IF type = "chat_message" THEN <<"handleChatMessage">>
    ELSE IF type = "typing_indicator" THEN <<"handleTypingIndicator">>
    ELSE <<"handleUserPresence">>

WSHandlerOf(type) ==
    CASE type = "user_status" -> <<"handleUserStatus">>
      [] type = "notification" -> <<"handleNotification">>
      [] type = "chat_message" -> <<"handleChatMessage">>
      [] type = "typing_indicator" -> <<"handleTypingIndicator">>
      [] type \in {"user_joined", "user_left"} -> <<"handleUserPresence">>
      [] OTHER -> <<>>

startHeartbeat(w) == [w EXCEPT !.heartbeatTimer = TRUE, !.intervals = @ + 1]


\* A bug of stopHeartbeat: the handle is forgotten and the interval is left
\* running.
stopHeartbeat_leak(w) == [w EXCEPT !.heartbeatTimer = FALSE]

stopHeartbeat(w) ==
    IF w.heartbeatTimer
    THEN [w EXCEPT !.heartbeatTimer = FALSE, !.intervals = @ - 1]
    ELSE w


\* A bug of CanRetry: the last attempt is never made.
CanRetry_early(attempts) == attempts < maxReconnectAttempts - 1

CanRetry(attempts) == attempts < maxReconnectAttempts


\* A bug of ReconnectDelay: the delay does not grow with the attempt.
ReconnectDelay_flat(attempts) == reconnectInterval

ReconnectDelay(attempts) == reconnectInterval * attempts

onMaxReconnectAttemptsReached(w) == [w EXCEPT !.notices = @ + 1]


\* A bug of handleReconnect: the notice is raised and a retry is scheduled
\* all the same.
handleReconnect_retryAtMax(w) ==
    IF CanRetry(w.reconnectAttempts)
    THEN [w EXCEPT !.reconnectAttempts = @ + 1,
                   !.timeouts = Append(@, ReconnectDelay(w.reconnectAttempts + 1)),
                   !.delays = Append(@, ReconnectDelay(w.reconnectAttempts + 1))]
    ELSE [onMaxReconnectAttemptsReached(w) EXCEPT
              !.timeouts = Append(@, ReconnectDelay(w.reconnectAttempts))]


\* A bug of handleReconnect: at the maximum it gives up without the notice.
handleReconnect_quiet(w) ==
    IF CanRetry(w.reconnectAttempts)
    THEN LET a == w.reconnectAttempts + 1
         IN [w EXCEPT !.reconnectAttempts = a,
                      !.timeouts = Append(@, ReconnectDelay(a)),
                      !.delays = Append(@, ReconnectDelay(a))]
    ELSE w

handleReconnect(w) ==
    IF CanRetry(w.reconnectAttempts)
    THEN LET a == w.reconnectAttempts + 1
         IN [w EXCEPT !.reconnectAttempts = a,
                      !.timeouts = Append(@, ReconnectDelay(a)),
                      !.delays = Append(@, ReconnectDelay(a))]
    ELSE onMaxReconnectAttemptsReached(w)


\* A bug of connect: the failure is handled in the catch block and once more
\* after it.
connect_retryTwice(w) ==
    IF w.urlOk
    THEN CreateSocket(w)
    ELSE handleReconnect(handleReconnect(w))

\* connect: `new WebSocket(wsUrl)` inside try/catch; when the constructor
\* throws, this.socket keeps its value and the catch block runs handleReconnect.
connect(w) ==
    IF w.urlOk
    THEN CreateSocket(w)
    ELSE handleReconnect(w)


\* A bug of sendMessage: the readyState check is missing.
WS_sendMessage_unchecked(w, frame) ==
    IF w.socket # 0 THEN SocketSend(w, w.socket, frame) ELSE [w EXCEPT !.threw = TRUE]

WS_sendMessage(w, frame) ==
    IF w.socket # 0 /\ w.sockets[w.socket].readyState = OPEN
    THEN SocketSend(w, w.socket, frame)
    ELSE w

disconnect(w) ==
    LET h == stopHeartbeat(w)
    IN IF h.socket # 0
       THEN [h EXCEPT !.sockets[h.socket] = SocketClose(@)]
       ELSE h


\* A bug of onopen: reconnectAttempts is not reset.
WS_onopen_noReset(w, i) ==
    startHeartbeat([w EXCEPT !.sockets[i] = [readyState |-> OPEN, established |-> TRUE],
                             !.uncleanRun = 0,
                             !.delays = <<>>])

WS_onopen(w, i) ==
    startHeartbeat([w EXCEPT !.sockets[i] = [readyState |-> OPEN, established |-> TRUE],
                             !.reconnectAttempts = 0,
                             !.uncleanRun = 0,
                             !.delays = <<>>])

WS_onclose(w, i, wasClean) ==
    LET c == stopHeartbeat([w EXCEPT !.sockets[i].readyState = CLOSED])
    IN IF ~wasClean
       THEN handleReconnect([c EXCEPT !.uncleanRun = @ + 1])
       ELSE c

updateNotificationCount(w, positive) == [w EXCEPT !.badge = positive]

\* handleMessage: the switch on data.type.  flag stands for the payload bit a
\* handler reads: unread_count > 0 for a notification.
WS_handleMessage(w, data) ==
    LET r == [w EXCEPT !.ran = @ \o WSHandlerOf(data.type)]
    IN IF data.type = "notification" THEN updateNotificationCount(r, data.flag) ELSE r


\* A bug of onmessage: no try/catch around JSON.parse and handleMessage.
WS_onmessage_uncaught(w, payload) ==
    IF payload.json # "object" THEN [w EXCEPT !.threw = TRUE] ELSE WS_handleMessage(w, payload)

\* onmessage: JSON.parse(event.data) then handleMessage, inside try/catch:
\* the SyntaxError of JSON.parse and the TypeError of reading null.type are
\* caught and logged.
WS_onmessage(w, payload) ==
    IF payload.json # "object" THEN w ELSE WS_handleMessage(w, payload)

WSNew(u) ==
    [socket |-> 0, reconnectAttempts |-> 0, heartbeatTimer |-> FALSE,
     sockets |-> <<>>, intervals |-> 0, timeouts |-> <<>>, notices |-> 0,
     badge |-> FALSE, urlOk |-> u, uncleanRun |-> 0, delays |-> <<>>]

WSConstructor(u) == connect(Begin(WSNew(u), "WebSocketManager", NoArg))

\* Inbound event data: text that is not JSON ("invalid"), the JSON text null,
\* or a decoded object with its type (the tags of section 6, an unknown tag,
\* no type at all) and the bit its handler reads.
Tags ==
    {"user_status", "notification", "chat_message", "typing_indicator",
     "user_joined", "user_left", "user_presence", "message_reaction",
     "bogus", "undefined"}

FlagTags == {"notification", "typing_indicator"}

Payloads ==
    {[json |-> j, type |-> "undefined", flag |-> FALSE] : j \in {"invalid", "null"}}
    \cup {[json |-> "object", type |-> t, flag |-> f] : t \in FlagTags, f \in BOOLEAN}
    \cup {[json |-> "object", type |-> t, flag |-> FALSE] : t \in Tags \ FlagTags}

RemoveAt(s, k) == SubSeq(s, 1, k - 1) \o SubSeq(s, k + 1, Len(s))

WSStep(w) == ws' = Fields(w) /\ last' = Effects(w) /\ UNCHANGED <<room, page, utilVars>>

WSOpen ==
    \E i \in DOMAIN ws.sockets :
        /\ ws.sockets[i].readyState = CONNECTING
        /\ WSStep(WS_onopen(Begin(ws, "ws.onopen", NoArg), i))

\* The server starts the closing handshake: readyState becomes CLOSING and
\* no callback of the manager runs until the close event.
WSPeerClosing ==
    \E i \in DOMAIN ws.sockets :
        /\ ws.sockets[i].readyState = OPEN
        /\ WSStep([Begin(ws, "ws.peerClosing", NoArg) EXCEPT !.sockets[i].readyState = CLOSING])

WSClose ==
    \E i \in DOMAIN ws.sockets :
        /\ ws.sockets[i].readyState # CLOSED
        /\ \E wasClean \in WasCleanChoices(ws.sockets[i]) :
               WSStep(WS_onclose(Begin(ws, "ws.onclose", wasClean), i, wasClean))

\* The error event: console.error and the empty onError hook.
WSError ==
    \E i \in DOMAIN ws.sockets :
        /\ ws.sockets[i].readyState # CLOSED
        /\ WSStep(Begin(ws, "ws.onerror", NoArg))

WSMessage ==
    \E i \in DOMAIN ws.sockets, p \in Payloads :
        /\ ws.sockets[i].readyState \in {OPEN, CLOSING}
        /\ ws.sockets[i].established
        /\ WSStep(WS_onmessage(Begin(ws, "ws.onmessage", p), p))

WSReconnectTimer ==
    \E k \in DOMAIN ws.timeouts :
        /\ Cardinality(LiveSockets(ws)) < MaxSockets
        /\ WSStep(connect([Begin(ws, "ws.reconnectTimer", NoArg) EXCEPT !.timeouts = RemoveAt(@, k)]))

WSHeartbeat ==
    /\ ws.intervals > 0
    /\ WSStep(WS_sendMessage(Begin(ws, "ws.heartbeat", NoArg), "heartbeat"))

WSSend ==
    \E f \in WSFrames \ {"heartbeat"} :
        WSStep(WS_sendMessage(Begin(ws, "ws.sendMessage", f), f))

WSDisconnect == WSStep(disconnect(Begin(ws, "ws.disconnect", NoArg)))

\* The user channel when every socket is opened by the server before it drops:
\* the handlers are those of the actions above, the close event comes only to
\* a socket that has opened and is never clean.  cyc counts the unclean closes.
CycStep(w, n) ==
    /\ ws' = Fields(w) /\ last' = Effects(w) /\ cyc' = n
    /\ UNCHANGED <<room, page, store, deb, acct, search>>

CycOpen ==
    \E i \in DOMAIN ws.sockets :
        /\ ws.sockets[i].readyState = CONNECTING
        /\ CycStep(WS_onopen(Begin(ws, "ws.onopen", NoArg), i), cyc)

CycPeerClosing ==
    \E i \in DOMAIN ws.sockets :
        /\ ws.sockets[i].readyState = OPEN
        /\ CycStep([Begin(ws, "ws.peerClosing", NoArg) EXCEPT !.sockets[i].readyState = CLOSING],
                   cyc)

CycClose ==
    \E i \in DOMAIN ws.sockets :
        /\ ws.sockets[i].readyState # CLOSED
        /\ ws.sockets[i].established
        /\ cyc < MaxCycles
        /\ CycStep(WS_onclose(Begin(ws, "ws.onclose", FALSE), i, FALSE), cyc + 1)

CycMessage ==
    \E i \in DOMAIN ws.sockets, p \in Payloads :
        /\ ws.sockets[i].readyState \in {OPEN, CLOSING}
        /\ ws.sockets[i].established
        /\ CycStep(WS_onmessage(Begin(ws, "ws.onmessage", p), p), cyc)

CycReconnectTimer ==
    \E k \in DOMAIN ws.timeouts :
        /\ Cardinality(LiveSockets(ws)) < MaxSockets
        /\ CycStep(connect([Begin(ws, "ws.reconnectTimer", NoArg)
                               EXCEPT !.timeouts = RemoveAt(@, k)]), cyc)

CycHeartbeat ==
    /\ ws.intervals > 0
    /\ CycStep(WS_sendMessage(Begin(ws, "ws.heartbeat", NoArg), "heartbeat"), cyc)

NextCycle ==
    \/ CycOpen
    \/ CycPeerClosing
    \/ CycClose
    \/ CycMessage
    \/ CycReconnectTimer
    \/ CycHeartbeat

\* -------------------------------------------------- ChatRoomManager (room)
\* Fields: socket, typingTimeout (TRUE while the typing-stop timeout is
\* pending), isTyping, replyTo (0 is null, else a message id).  Browser
\* resources: sockets, timeouts (delays of the pending reconnect timeouts),
\* input (the value of #message-input, a sequence of characters) and
\* typingShown (whether #typing-indicator is displayed).  Observer: uncleanRun
\* (unclean closes since the last open, counted up to MaxRoomRun).
SP == " "

\* Values of #message-input: empty, only whitespace, and text with whitespace
\* around it.
Inputs == {<<>>, <<SP>>, <<SP, "a", SP>>}

RECURSIVE TrimStart(_)
TrimStart(v) == IF v # <<>> /\ Head(v) = SP THEN TrimStart(Tail(v)) ELSE v

RECURSIVE TrimEnd(_)
TrimEnd(v) ==
    IF v # <<>> /\ v[Len(v)] = SP THEN TrimEnd(SubSeq(v, 1, Len(v) - 1)) ELSE v

\* String.prototype.trim
Trim(v) == TrimEnd(TrimStart(v))

MessageIds == {1}

RoomHandlerOf(type) ==
    CASE type = "chat_message" -> <<"addMessage">>
      [] type = "typing_indicator" -> <<"updateTypingIndicator">>
      [] type = "user_presence" -> <<"updateUserPresence">>
      [] type = "message_reaction" -> <<"updateReaction">>
      [] OTHER -> <<>>

connectWebSocket(w) == CreateSocket(w)

updateTypingIndicator(w, isTyping) == [w EXCEPT !.typingShown = isTyping]

handleWebSocketMessage(w, data) ==
    LET r == [w EXCEPT !.ran = @ \o RoomHandlerOf(data.type)]
    IN IF data.type = "typing_indicator" THEN updateTypingIndicator(r, data.flag) ELSE r

\* onmessage: JSON.parse(event.data) with no try/catch, then the dispatcher:
\* the SyntaxError of JSON.parse and the TypeError of reading null.type escape.
Room_onmessage(w, payload) ==
    IF payload.json # "object"
    THEN [w EXCEPT !.threw = TRUE]
    ELSE handleWebSocketMessage(w, payload)

Room_onopen(w, i) ==
    [w EXCEPT !.sockets[i] = [readyState |-> OPEN, established |-> TRUE],
              !.uncleanRun = 0]

\* The observer's step at a close event.
CountClose(run, wasClean) ==
    IF wasClean \/ run >= MaxRoomRun THEN run ELSE run + 1

\* A bug of the close handler: the retry backs off as the user channel's does.
Room_onclose_backoff(w, i) ==
    [w EXCEPT !.sockets[i].readyState = CLOSED,
              !.timeouts = Append(@, roomReconnectDelay * w.uncleanRun)]


\* A bug of the close handler: the retry is scheduled twice (as when the
\* error handler schedules one too).
Room_onclose_twice(w, i) ==
    [w EXCEPT !.sockets[i].readyState = CLOSED,
              !.timeouts = @ \o <<roomReconnectDelay, roomReconnectDelay>>]

Room_onclose(w, i) ==
    [w EXCEPT !.sockets[i].readyState = CLOSED,
              !.timeouts = Append(@, roomReconnectDelay)]

cancelReply(w) == [w EXCEPT !.replyTo = 0]

setReplyTo(w, id) == [w EXCEPT !.replyTo = id]

stopTyping(w) ==
    IF w.isTyping
    THEN SocketSend([w EXCEPT !.isTyping = FALSE], w.socket, "typing:false")
    ELSE w

SetTypingTimeout(w) == [w EXCEPT !.typingTimeout = TRUE]

\* An exception thrown by socket.send skips the rest of the method.
handleTyping(w) ==
    LET a == IF ~w.isTyping
             THEN SocketSend([w EXCEPT !.isTyping = TRUE], w.socket, "typing:true")
             ELSE w
    IN IF a.threw THEN a ELSE SetTypingTimeout(a)

AfterSend(w) == stopTyping(cancelReply([w EXCEPT !.input = <<>>]))


\* A bug of sendMessage: the content is not trimmed before the emptiness test.
Room_sendMessage_noTrim(w) ==
    IF w.input = <<>>
    THEN w
    ELSE LET a == SocketSend(w, w.socket, "chat_message")
         IN IF a.threw THEN a ELSE AfterSend(a)

Room_sendMessage(w) ==
    IF Trim(w.input) = <<>>
    THEN w
    ELSE LET a == SocketSend(w, w.socket, "chat_message")
         IN IF a.threw THEN a ELSE AfterSend(a)

RoomNew ==
    [socket |-> 0, typingTimeout |-> FALSE, isTyping |-> FALSE, replyTo |-> 0,
     sockets |-> <<>>, timeouts |-> <<>>, input |-> <<>>, typingShown |-> FALSE,
     uncleanRun |-> 0]

RoomConstructor == connectWebSocket(Begin(RoomNew, "ChatRoomManager", NoArg))

RoomStep(w) == room' = Fields(w) /\ last' = Effects(w) /\ UNCHANGED <<ws, page, utilVars>>

RoomOpen ==
    \E i \in DOMAIN room.sockets :
        /\ room.sockets[i].readyState = CONNECTING
        /\ RoomStep(Room_onopen(Begin(room, "room.onopen", NoArg), i))

RoomPeerClosing ==
    \E i \in DOMAIN room.sockets :
        /\ room.sockets[i].readyState = OPEN
        /\ RoomStep([Begin(room, "room.peerClosing", NoArg) EXCEPT !.sockets[i].readyState = CLOSING])

\* The close event; the handler does not read event.wasClean.
RoomClose ==
    \E i \in DOMAIN room.sockets :
        /\ room.sockets[i].readyState # CLOSED
        /\ \E wasClean \in WasCleanChoices(room.sockets[i]) :
               RoomStep(Room_onclose(
                   [Begin(room, "room.onclose", wasClean) EXCEPT
                        !.uncleanRun = CountClose(@, wasClean)], i))

RoomError ==
    \E i \in DOMAIN room.sockets :
        /\ room.sockets[i].readyState # CLOSED
        /\ RoomStep(Begin(room, "room.onerror", NoArg))

RoomMessage ==
    \E i \in DOMAIN room.sockets, p \in Payloads :
        /\ room.sockets[i].readyState \in {OPEN, CLOSING}
        /\ room.sockets[i].established
        /\ RoomStep(Room_onmessage(Begin(room, "room.onmessage", p), p))

RoomReconnectTimer ==
    \E k \in DOMAIN room.timeouts :
        /\ Cardinality(LiveSockets(room)) < MaxSockets
        /\ RoomStep(connectWebSocket(
               [Begin(room, "room.reconnectTimer", NoArg) EXCEPT !.timeouts = RemoveAt(@, k)]))

\* The user edits #message-input: the input event runs handleTyping.
RoomInput ==
    \E v \in Inputs :
        /\ v # room.input
        /\ RoomStep(handleTyping([Begin(room, "room.input", NoArg) EXCEPT !.input = v]))

RoomTypingTimeout ==
    /\ room.typingTimeout
    /\ RoomStep(stopTyping([Begin(room, "room.typingTimeout", NoArg) EXCEPT !.typingTimeout = FALSE]))

\* The message form is submitted.
RoomSubmit == RoomStep(Room_sendMessage(Begin(room, "room.sendMessage", room.input)))

RoomSetReplyTo ==
    \E id \in MessageIds : RoomStep(setReplyTo(Begin(room, "room.setReplyTo", id), id))

RoomCancelReply == RoomStep(cancelReply(Begin(room, "room.cancelReply", NoArg)))

NextRoom ==
    \/ RoomOpen
    \/ RoomPeerClosing
    \/ RoomClose
    \/ RoomError
    \/ RoomMessage
    \/ RoomReconnectTimer
    \/ RoomInput
    \/ RoomTypingTimeout
    \/ RoomSubmit
    \/ RoomSetReplyTo
    \/ RoomCancelReply

NextUser ==
    \/ WSOpen
    \/ WSPeerClosing
    \/ WSClose
    \/ WSError
    \/ WSMessage
    \/ WSReconnectTimer
    \/ WSHeartbeat
    \/ WSSend
    \/ WSDisconnect

\* ------------------------------------- the page's typing handler (page)
\* The DOMContentLoaded handler of websocket.js: the document's input events
\* go through Utils.debounce(..., 300); the debounced callback, for a target
\* of class chat-input, sends typing {is_typing: true} and starts a timeout
\* that sends typing {is_typing: false} 3000 ms later.  Times are in ms, and
\* time advances in steps of TickMs.
\* Fields: debounce (ms until the debounce timeout runs, -1 when none is
\* pending), target (whether the last input event's target is a chat input),
\* stops (ms until each pending stop-typing timeout runs).  Observer:
\* sinceTrue (ms since a typing {is_typing: true} frame was last transmitted,
\* counted up to 3000, which also stands for never).
TickMs == typingDebounceWait

PageNew == [debounce |-> -1, target |-> FALSE, stops |-> <<>>, sinceTrue |-> typingStopDelay]

\* The function Utils.debounce returns: clearTimeout(timeout), then
\* timeout = setTimeout(later, wait), later keeping the last call's arguments.
debounce(p, isChat) == [p EXCEPT !.debounce = typingDebounceWait, !.target = isChat]

sendTypingIndicator(w, isTyping) ==
    WS_sendMessage(w, IF isTyping THEN "typing:true" ELSE "typing:false")

\* The debounced callback, on the manager's working record.
typingInputHandler(w, isChat) == IF isChat THEN sendTypingIndicator(w, TRUE) ELSE w

Elapse(t) == IF t > 0 THEN t - TickMs ELSE t

PageStep(w, p) == ws' = Fields(w) /\ last' = Effects(w) /\ page' = p /\ UNCHANGED <<room, utilVars>>

\* An input event on the document.
PageInput ==
    \E isChat \in BOOLEAN :
        /\ Len(page.stops) < MaxStops
        /\ PageStep(Begin(ws, "page.input", isChat), debounce(page, isChat))

\* The debounce timeout runs the callback with the last event.
PageDebounced ==
    /\ page.debounce = 0
    /\ LET w == typingInputHandler(Begin(ws, "page.debounced", page.target), page.target)
       IN PageStep(w, [page EXCEPT
              !.debounce = -1,
              !.target = FALSE,
              !.stops = IF page.target THEN Append(@, typingStopDelay) ELSE @,
              !.sinceTrue = IF w.sent # <<>> THEN 0 ELSE @])

\* A stop-typing timeout runs.
PageStopTyping ==
    \E k \in DOMAIN page.stops :
        /\ page.stops[k] = 0
        /\ PageStep(sendTypingIndicator(Begin(ws, "page.stopTyping", NoArg), FALSE),
                    [page EXCEPT !.stops = RemoveAt(@, k)])

\* Time passes, unless a timeout is due.
PageTick ==
    /\ page.debounce # 0
    /\ \A k \in DOMAIN page.stops : page.stops[k] # 0
    /\ PageStep(Begin(ws, "page.tick", NoArg),
                [page EXCEPT
                    !.debounce = Elapse(@),
                    !.stops = [k \in DOMAIN @ |-> Elapse(@[k])],
                    !.sinceTrue = IF @ < typingStopDelay THEN @ + TickMs ELSE @])

NextPage ==
    \/ PageInput
    \/ PageDebounced
    \/ PageStopTyping
    \/ PageTick

\* ------------------------------------- the expiring store of Utils (store)
\* Utils.setStorageWithExpiry / getStorageWithExpiry on one key of
\* localStorage.  Fields: now (the clock, new Date().getTime()), text (the
\* string localStorage holds for the key: present is FALSE when there is
\* none).  Observers: op and result (the last call and what a read returned),
\* written (the last set: its value, its time and its ttl).
\* JavaScript values are written as they print; 'a' is a string.
JSValues == {"'a'", "0", "null", "undefined", "NaN"}

\* JSON.stringify({value, expiry}): a member whose value is undefined is left
\* out, and NaN is written as null.
JSONStringify(item) ==
    [present |-> TRUE,
     hasValue |-> item.value # "undefined",
     value |-> CASE item.value = "undefined" -> ""
                 [] item.value = "NaN" -> "null"
                 [] OTHER -> item.value,
     expiry |-> item.expiry]

\* JSON.parse of such a text: reading a member that is not there gives undefined.
JSONParse(text) ==
    [value |-> IF text.hasValue THEN text.value ELSE "undefined", expiry |-> text.expiry]

NoText == [present |-> FALSE, hasValue |-> FALSE, value |-> "", expiry |-> 0]

setStorageWithExpiry(s, value, ttl) ==
    [s EXCEPT !.text = JSONStringify([value |-> value, expiry |-> s.now + ttl])]


\* A bug of the expiry test: the entry expires at its expiry time already.
Expired_inclusive(now, expiry) == now >= expiry

Expired(now, expiry) == now > expiry

getStorageWithExpiry(s) ==
    IF ~s.text.present
    THEN [s EXCEPT !.result = "null"]
    ELSE LET item == JSONParse(s.text)
         IN IF Expired(s.now, item.expiry)
            THEN [s EXCEPT !.text = NoText, !.result = "null"]
            ELSE [s EXCEPT !.result = item.value]

NeverWritten == [set |-> FALSE, value |-> "", at |-> 0, ttl |-> 0]

StoreNew ==
    [now |-> 0, text |-> NoText, op |-> "load", result |-> "", written |-> NeverWritten]

StoreStep(s) == store' = s /\ UNCHANGED <<ws, room, last, page, deb, acct, search, cyc>>

StorageSet ==
    \E v \in JSValues, ttl \in 0..MaxTtl :
        StoreStep(setStorageWithExpiry(
            [store EXCEPT !.op = "set", !.result = "",
                          !.written = [set |-> TRUE, value |-> v, at |-> store.now, ttl |-> ttl]],
            v, ttl))

StorageGet == StoreStep(getStorageWithExpiry([store EXCEPT !.op = "get"]))

StorageTick ==
    /\ store.now < MaxTime
    /\ StoreStep([store EXCEPT !.now = @ + 1, !.op = "tick", !.result = ""])

NextStorage ==
    \/ StorageSet
    \/ StorageGet
    \/ StorageTick

\* --------------------------------------------------- Utils.debounce (deb)
\* One function made by Utils.debounce(func, wait), with wait = DebounceWait
\* time units.  Fields: timeout (time until the pending timeout runs later,
\* -1 when none is pending), args (the arguments later was made with).
\* Observers: op (the last step), ran (the arguments func last ran with),
\* sinceCall (time since the most recent call, counted up to DebounceWait),
\* lastArgs (the arguments of the most recent call), calls (calls since func
\* last ran, or before it ran if it has run since the most recent call,
\* counted up to MaxBurst), runs (runs of func since the most recent call).
DebounceArgs == {"x", "y", "z"}


\* A bug of debounce: a call made while a timeout is pending does not restart it.
executedFunction_noRestart(d, args) ==
    IF d.timeout >= 0
    THEN [d EXCEPT !.args = args]
    ELSE [d EXCEPT !.timeout = DebounceWait, !.args = args]

\* The returned function: clearTimeout(timeout); timeout = setTimeout(later, wait).
executedFunction(d, args) == [d EXCEPT !.timeout = DebounceWait, !.args = args]

\* later: clearTimeout(timeout); func(...args).
later(d) == [d EXCEPT !.timeout = -1, !.ran = d.args]

DebNew ==
    [timeout |-> -1, args |-> "", op |-> "load", ran |-> "",
     sinceCall |-> DebounceWait, lastArgs |-> "", calls |-> 0, runs |-> 0]

DebStep(d) == deb' = d /\ UNCHANGED <<ws, room, last, page, store, acct, search, cyc>>

DebCall ==
    \E a \in DebounceArgs :
        DebStep(executedFunction(
            [deb EXCEPT !.op = "call", !.sinceCall = 0, !.lastArgs = a, !.runs = 0,
                        !.calls = IF deb.runs > 0 THEN 1
                                  ELSE IF @ < MaxBurst THEN @ + 1 ELSE @], a))

DebTimeout ==
    /\ deb.timeout = 0
    /\ DebStep(later([deb EXCEPT !.op = "later", !.runs = @ + 1]))

\* Time passes, unless the timeout is due.
DebTick ==
    /\ deb.timeout # 0
    /\ DebStep([deb EXCEPT !.op = "tick",
                           !.timeout = IF @ > 0 THEN @ - 1 ELSE @,
                           !.sinceCall = IF @ < DebounceWait THEN @ + 1 ELSE @])

NextDebounce ==
    \/ DebCall
    \/ DebTimeout
    \/ DebTick

\* ------------------------- notification settings auto-save (acct)
\* AccountsManager.handleNotificationSettingChange on one .notification-setting
\* checkbox.  Fields: checked (setting.checked), pending (the requests in
\* flight, each with the isEnabled its handler call read and, once the
\* request has ended, how: reply), server (the value the server holds: that of
\* the request it accepted last).  Observers: op (the last step), outcome (how
\* the request of the last step ended), toast (the toast the last step raised).
Outcomes == {"ok", "status", "network"}

\* makeRequest: fetch rejects on a network failure, and a response that is
\* not ok makes makeRequest throw; otherwise it resolves.
makeRequestThrows(outcome) == outcome # "ok"

\* The handler up to its await: it reads setting.checked and posts it.
handleNotificationSettingChange(a) ==
    [a EXCEPT !.pending = Append(@, [isEnabled |-> a.checked, reply |-> "none"])]


\* A bug of the catch block: the checkbox is not reverted.
settingChangeSettled_noRevert(a, req, outcome) ==
    IF makeRequestThrows(outcome) THEN [a EXCEPT !.toast = "error"] ELSE [a EXCEPT !.toast = "success"]

\* The handler after its await: the success toast, or the catch block.
settingChangeSettled(a, req, outcome) ==
    IF makeRequestThrows(outcome)
    THEN [a EXCEPT !.checked = ~req.isEnabled, !.toast = "error"]
    ELSE [a EXCEPT !.toast = "success"]

AcctNew ==
    [checked |-> FALSE, pending |-> <<>>, server |-> FALSE,
     op |-> "load", outcome |-> "", toast |-> ""]

AcctStep(a) == acct' = a /\ UNCHANGED <<ws, room, last, page, store, deb, search, cyc>>

\* The user clicks the checkbox: it flips and its change event fires.
AcctToggle ==
    /\ Len(acct.pending) < MaxRequests
    /\ AcctStep(handleNotificationSettingChange(
           [acct EXCEPT !.checked = ~@, !.op = "change", !.outcome = "", !.toast = ""]))

\* A request in flight ends, in any order: the server accepts it and stores
\* its value, the server refuses it, or it fails on the network.
AcctServer ==
    \E k \in DOMAIN acct.pending, outcome \in Outcomes :
        /\ acct.pending[k].reply = "none"
        /\ AcctStep([acct EXCEPT
               !.pending[k].reply = outcome, !.op = "server", !.outcome = "", !.toast = "",
               !.server = IF outcome = "ok" THEN acct.pending[k].isEnabled ELSE @])

\* The await of a request that has ended resumes its handler, in any order.
AcctSettle ==
    \E k \in DOMAIN acct.pending :
        /\ acct.pending[k].reply # "none"
        /\ AcctStep(settingChangeSettled(
               [acct EXCEPT !.pending = RemoveAt(@, k), !.op = "settle",
                            !.outcome = acct.pending[k].reply, !.toast = ""],
               acct.pending[k], acct.pending[k].reply))

NextAccounts ==
    \/ AcctToggle
    \/ AcctServer
    \/ AcctSettle

\* ------------------------------------ ChatHomeManager user search (search)
\* searchUsers on one search box and its results container.  Fields: query
\* (the value of the input), pending (the fetches in flight, each with its
\* query and, once it has ended, how: reply), shown (the container's content:
\* html is "" when cleared, "none" for 'No users found', "list" for the users).
\* Observers: op (the last step), failed (whether a fetch has failed).
Queries == {<<>>, <<"a">>, <<"a", "b">>, <<"a", "b", "c">>, <<"a", "b", "x">>}

\* The users the search endpoint returns for a query.
UsersOf(q) ==
    CASE q = <<"a", "b">> -> <<"abby", "abcde">>
      [] q = <<"a", "b", "c">> -> <<"abcde">>
      [] OTHER -> <<>>

Cleared == [html |-> "", users |-> <<>>]

clearSearchResults(h) == [h EXCEPT !.shown = Cleared]

displaySearchResults(h, users) ==
    IF Len(users) = 0
    THEN [h EXCEPT !.shown = [html |-> "none", users |-> <<>>]]
    ELSE [h EXCEPT !.shown = [html |-> "list", users |-> users]]

\* searchUsers up to its await.
searchUsers(h, q) ==
    IF Len(q) < 2
    THEN clearSearchResults(h)
    ELSE [h EXCEPT !.pending = Append(@, [query |-> q, reply |-> "none"])]

\* searchUsers after its await: the results are displayed, or the catch block
\* logs the error.
searchSettled(h, req) ==
    IF req.reply = "ok" THEN displaySearchResults(h, UsersOf(req.query)) ELSE h

SearchNew ==
    [query |-> <<>>, pending |-> <<>>, shown |-> Cleared, op |-> "load", failed |-> FALSE]

SearchStep(h) == search' = h /\ UNCHANGED <<ws, room, last, page, store, deb, acct, cyc>>

\* An input event: the user has changed the value of the search box.
SearchInput ==
    \E q \in Queries :
        /\ q # search.query
        /\ Len(search.pending) < MaxSearches
        /\ SearchStep(searchUsers([search EXCEPT !.query = q, !.op = "input"], q))

\* A fetch in flight ends, in any order: with the users, or with a failure.
SearchServer ==
    \E k \in DOMAIN search.pending, outcome \in {"ok", "network"} :
        /\ search.pending[k].reply = "none"
        /\ SearchStep([search EXCEPT !.pending[k].reply = outcome, !.op = "server",
                                     !.failed = @ \/ outcome # "ok"])

\* The await of a fetch that has ended resumes searchUsers, in any order.
SearchSettle ==
    \E k \in DOMAIN search.pending :
        /\ search.pending[k].reply # "none"
        /\ SearchStep(searchSettled(
               [search EXCEPT !.pending = RemoveAt(@, k), !.op = "settle"],
               search.pending[k]))

NextSearch ==
    \/ SearchInput
    \/ SearchServer
    \/ SearchSettle

Init ==
    /\ \E u \in BOOLEAN : ws = Fields(WSConstructor(u))
    /\ store = StoreNew
    /\ deb = DebNew
    /\ acct = AcctNew
    /\ search = SearchNew
    /\ cyc = 0
    /\ page = PageNew
    /\ room = Fields(RoomConstructor)
    /\ last = [op |-> "load", arg |-> NoArg, threw |-> FALSE, sent |-> <<>>, ran |-> <<>>]

SpecUser == Init /\ [][NextUser]_vars

\* The user channel when the browser delivers every close event it owes and
\* runs every timeout that is due.
SpecUserFair == SpecUser /\ WF_vars(WSClose) /\ WF_vars(WSReconnectTimer)

SpecRoom == Init /\ [][NextRoom]_vars

\* The user channel together with the page's typing handler.
SpecPage == Init /\ [][NextUser \/ NextPage]_vars

SpecStorage == Init /\ [][NextStorage]_vars

SpecDebounce == Init /\ [][NextDebounce]_vars

SpecAccounts == Init /\ [][NextAccounts]_vars

SpecSearch == Init /\ [][NextSearch]_vars

SpecCycle == Init /\ [][NextCycle]_vars

Next == NextUser \/ NextRoom

Spec == Init /\ [][Next]_vars

\* ------------------------------------------------------------------ claims
WSState == IF ws.socket = 0 THEN "none" ELSE ws.sockets[ws.socket].readyState

RoomState == IF room.socket = 0 THEN "none" ELSE room.sockets[room.socket].readyState

\* C1: once disconnect() has returned, the user channel schedules no reconnect
\* and does not invoke connect() again.  Stated for the event that follows the
\* call: it is not the reconnect callback and it adds no reconnect timeout.
C1_NoReconnectAfterDisconnect ==
    [][(ws.urlOk /\ last.op = "ws.disconnect") =>
          /\ last'.op # "ws.reconnectTimer"
          /\ Len(ws'.timeouts) <= Len(ws.timeouts)]_vars

\* C2: in a run of unclean closes with no open in between, the k-th close
\* schedules its reconnect after k x 5000 ms, so the delays scheduled in the
\* run are 5000, 10000, 15000, ... and strictly increase; the pending timeout
\* is the one scheduled last.
C2_BackoffDelays ==
    ws.urlOk =>
        /\ Len(ws.delays) <= ws.uncleanRun
        /\ \A k \in DOMAIN ws.delays : ws.delays[k] = k * 5000
        /\ \A j, k \in DOMAIN ws.delays : j < k => ws.delays[j] < ws.delays[k]
        /\ (ws.uncleanRun \in 1..5 =>
               /\ Len(ws.delays) = ws.uncleanRun
               /\ (ws.timeouts # <<>> => ws.timeouts = <<ws.uncleanRun * 5000>>))

C2_Witness ==
    /\ ws.urlOk
    /\ ws.uncleanRun = 3
    /\ ws.delays = <<5000, 10000, 15000>>
    /\ ws.timeouts = <<15000>>

C4_HandleReconnectReached ==
    \/ last'.op = "ws.onclose" /\ last'.arg = FALSE
    \/ last'.op = "ws.reconnectTimer" /\ ~ws.urlOk

\* C4: a step in which handleReconnect is reached (an unclean close, or a
\* connect() whose socket constructor throws) while ReconnectCounter is 5
\* schedules no timeout and raises the notice; and once the notice is raised
\* no timeout is pending, no socket is live and connect() does not run again.
C4_TerminalAtMax ==
    [][/\ (C4_HandleReconnectReached /\ ws.reconnectAttempts = 5) =>
              /\ ws'.timeouts = <<>>
              /\ ws'.notices = ws.notices + 1
              /\ ws'.reconnectAttempts = 5
       /\ ws.notices > 0 =>
              /\ last'.op # "ws.reconnectTimer"
              /\ ws'.timeouts = <<>>
              /\ LiveSockets(ws') = {}
              /\ ws'.notices = ws.notices]_vars

C4_Witness ==
    /\ ~ws.urlOk
    /\ last.op = "ws.reconnectTimer"
    /\ ws.notices = 1
    /\ ws.reconnectAttempts = 5
    /\ ws.timeouts = <<>>

\* C5: the heartbeat interval is live exactly when the user channel's socket
\* is open.
C5_HeartbeatIffConnected == (ws.intervals > 0) <=> (WSState = OPEN)

C7_DisconnectCancelsTimers ==
    (ws.urlOk /\ last.op = "ws.disconnect") => ws.intervals = 0 /\ ws.timeouts = <<>>

\* C8: WebSocketManager.sendMessage (called directly or by the heartbeat
\* interval) while the socket is absent or not open raises nothing, transmits
\* nothing and leaves the manager as it was.
C8_SendWhenNotOpen ==
    [][(last'.op \in {"ws.sendMessage", "ws.heartbeat"} /\ WSState # OPEN) =>
          /\ ~last'.threw
          /\ last'.sent = <<>>
          /\ ws' = ws]_vars

C8_Witness ==
    /\ last.op = "ws.sendMessage"
    /\ WSState = CONNECTING
    /\ ws.reconnectAttempts > 0
    /\ ~last.threw
    /\ last.sent = <<>>

\* C9: ChatRoomManager.sendMessage with a non-empty message while the socket
\* is still connecting returns without throwing and transmits no frame.
C9_RoomSendWhileConnecting ==
    (last.op = "room.sendMessage" /\ Trim(last.arg) # <<>> /\ RoomState = CONNECTING) =>
        ~last.threw /\ last.sent = <<>>

\* The tags each dispatcher has a case for.
WSKnownTags ==
    {"user_status", "notification", "chat_message", "typing_indicator",
     "user_joined", "user_left"}

RoomKnownTags == {"chat_message", "typing_indicator", "user_presence", "message_reaction"}

\* C10: a decoded frame (an object) whose type the receiving dispatcher does
\* not recognise runs no handler, raises nothing and leaves the manager (its
\* handler-visible state and its connection state) as it was.
C10_UnknownTagDropped ==
    [][/\ (last'.op = "ws.onmessage" /\ last'.arg.json = "object"
              /\ last'.arg.type \notin WSKnownTags) =>
              last'.ran = <<>> /\ ~last'.threw /\ ws' = ws
       /\ (last'.op = "room.onmessage" /\ last'.arg.json = "object"
              /\ last'.arg.type \notin RoomKnownTags) =>
              last'.ran = <<>> /\ ~last'.threw /\ room' = room]_vars

C10_Witness ==
    /\ last.op = "ws.onmessage"
    /\ last.arg.json = "object"
    /\ last.arg.type = "bogus"
    /\ ws.badge
    /\ room.typingShown

\* C11: on the user channel a frame that does not decode (text that is not
\* JSON), or whose dispatch throws (JSON null: reading its type throws inside
\* handleMessage), is caught inside the message callback: nothing escapes it
\* and the manager (its sockets, ReconnectCounter, heartbeat timer) is as it
\* was; and the well-formed frame that arrives next runs exactly its handler.
C11_DecodeFailureCaught ==
    [][/\ (last'.op = "ws.onmessage" /\ last'.arg.json # "object") =>
              ~last'.threw /\ last'.ran = <<>> /\ ws' = ws
       /\ (last.op = "ws.onmessage" /\ last.arg.json # "object"
              /\ last'.op = "ws.onmessage" /\ last'.arg.json = "object") =>
              ~last'.threw /\ last'.ran = WSHandlerOf(last'.arg.type)]_vars

C11_Witness ==
    /\ last.op = "ws.onmessage"
    /\ last.arg.json = "invalid"
    /\ ~last.threw
    /\ WSState = OPEN
    /\ ws.heartbeatTimer
    /\ ws.badge

\* C12: on the room channel a frame that does not decode is caught inside the
\* message callback: no exception escapes it.
C12_RoomDecodeFailureCaught ==
    (last.op = "room.onmessage" /\ last.arg.json = "invalid") => ~last.threw

\* C13: ReconnectCounter is within 0..5 in every state; every open event sets
\* it to 0; an unclean close that schedules a reconnect increases it by
\* exactly 1, and one that schedules none leaves it as it was.
C13_CounterBounds ==
    /\ [](ws.reconnectAttempts \in 0..5)
    /\ [][/\ (last'.op = "ws.onopen") => ws'.reconnectAttempts = 0
          /\ (last'.op = "ws.onclose" /\ last'.arg = FALSE) =>
                 IF Len(ws'.timeouts) > Len(ws.timeouts)
                 THEN ws'.reconnectAttempts = ws.reconnectAttempts + 1
                 ELSE ws'.reconnectAttempts = ws.reconnectAttempts]_vars

C13_Witness ==
    /\ last.op = "ws.onopen"
    /\ ws.reconnectAttempts = 0
    /\ ws.badge
    /\ WSState = OPEN

\* C14: when the socket constructor throws inside connect(), connect() returns
\* normally and handleReconnect has run exactly once: below the maximum the
\* counter grows by 1 and one timeout (of counter x 5000 ms) is added, at the
\* maximum the notice is raised once and no timeout is added.  This holds for
\* the connect() of the constructor and for the connect() of every timeout.
C14_ConnectFailureHandledOnce ==
    /\ [](~ws.urlOk =>
              /\ ws.socket = 0 /\ ws.sockets = <<>>
              /\ (last.op = "load" => ws.reconnectAttempts = 1 /\ ws.timeouts = <<5000>>))
    /\ [][(~ws.urlOk /\ last'.op = "ws.reconnectTimer") =>
              /\ ~last'.threw
              /\ IF ws.reconnectAttempts < 5
                 THEN /\ ws'.reconnectAttempts = ws.reconnectAttempts + 1
                      /\ Len(ws'.timeouts) = Len(ws.timeouts)
                      /\ ws'.timeouts[Len(ws'.timeouts)] = 5000 * ws'.reconnectAttempts
                      /\ ws'.notices = ws.notices
                 ELSE /\ ws'.reconnectAttempts = ws.reconnectAttempts
                      /\ Len(ws'.timeouts) = Len(ws.timeouts) - 1
                      /\ ws'.notices = ws.notices + 1]_vars

C14_Witness ==
    /\ ~ws.urlOk
    /\ last.op = "ws.reconnectTimer"
    /\ ~last.threw
    /\ ws.reconnectAttempts = 3
    /\ ws.timeouts = <<15000>>

\* C16: on the room channel a close event with wasClean true schedules no
\* reconnect.
C16_RoomCleanCloseNoReconnect ==
    [][(last'.op = "room.onclose" /\ last'.arg = TRUE) =>
          room'.timeouts = room.timeouts]_vars

C15_RoomFixedRetry ==
    /\ [](/\ \A k \in DOMAIN room.timeouts : room.timeouts[k] = 3000
          /\ LiveSockets(room) = {} => room.timeouts # <<>>)
    /\ [][(last'.op = "room.onclose" /\ last'.arg = FALSE) =>
              room'.timeouts = Append(room.timeouts, 3000)]_vars

C15_Witness ==
    /\ last.op = "room.onclose"
    /\ last.arg = FALSE
    /\ room.uncleanRun = 3
    /\ room.timeouts = <<3000>>

\* C17: on the room channel with an open socket, the first input of a burst
\* (no typing timeout is pending: the last input that set one is 3000 ms or
\* more in the past) sends exactly one typing {is_typing: true} frame.
C17_BurstStartsWithTrueFrame ==
    [][(last'.op = "room.input" /\ RoomState = OPEN /\ ~room.typingTimeout) =>
          last'.sent = <<"typing:true">>]_vars

\* C18: a typing {is_typing: false} frame of the page's typing handler is
\* transmitted only 3000 ms or more after the most recent
\* typing {is_typing: true} frame.
C18_StopAfterInactivity ==
    (last.op = "page.stopTyping" /\ last.sent = <<"typing:false">>) =>
        page.sinceTrue >= 3000

\* C22: on the room channel a decoded frame tagged user_joined or user_left
\* runs exactly one handler, updateUserPresence.
C22_RoomPresenceRouted ==
    (last.op = "room.onmessage" /\ last.arg.json = "object"
        /\ last.arg.type \in {"user_joined", "user_left"}) =>
        last.ran = <<"updateUserPresence">>

\* C25: when ChatRoomManager.sendMessage has cleared the input of a non-empty
\* message, the chat_message frame was handed to an open socket.
C25_InputClearedOnlyWhenSent ==
    (last.op = "room.sendMessage" /\ Trim(last.arg) # <<>> /\ room.input = <<>>) =>
        \E k \in DOMAIN last.sent : last.sent[k] = "chat_message"

\* C26: the isTyping flag of the room channel is true exactly when the last
\* typing frame transmitted was is_typing:true; so a step in which the flag
\* becomes true transmits a typing {is_typing: true} frame.
C26_FlagFollowsFrames ==
    [][(~room.isTyping /\ room'.isTyping) => last'.sent = <<"typing:true">>]_vars

\* C30: ChatRoomManager.sendMessage with empty or whitespace-only input
\* transmits no frame, raises nothing and leaves the manager (reply reference,
\* isTyping, typing timeout, input, sockets) as it was.
C30_BlankSubmitIsNoOp ==
    [][(last'.op = "room.sendMessage" /\ Trim(last'.arg) = <<>>) =>
          /\ last'.sent = <<>>
          /\ ~last'.threw
          /\ room' = room]_vars

C30_Witness ==
    /\ last.op = "room.sendMessage"
    /\ last.arg = <<SP>>
    /\ room.input = <<SP>>
    /\ room.replyTo = 1
    /\ room.isTyping
    /\ room.typingTimeout
    /\ RoomState = OPEN

JSONSafe(v) == JSONParse(JSONStringify([value |-> v, expiry |-> 0])).value = v

C29_DebounceRunsAfterQuiet ==
    /\ [](deb.runs <= 1)
    /\ [][/\ (deb'.op = "later") =>
                 /\ deb.sinceCall = DebounceWait
                 /\ deb.runs = 0
                 /\ deb'.ran = deb.lastArgs
                 /\ deb'.timeout = -1
          /\ (deb'.op = "call" /\ deb.sinceCall < DebounceWait) =>
                 deb.runs = 0 /\ deb'.ran = deb.ran]_vars

C29_Witness ==
    /\ deb.op = "later"
    /\ deb.lastArgs = "y"
    /\ deb.ran = "y"
    /\ deb.args = "y"
    /\ deb.calls = 2
    /\ deb.sinceCall = DebounceWait
    /\ deb.runs = 1

\* C23: when a notification-settings request fails (a network failure or a
\* response that is not ok), the handler sets the checkbox to the value it had
\* before the change that made the request, raises the error toast and issues
\* no request; the value the server holds is as it was.
C23_FailureRevertsCheckbox ==
    [][(acct'.op = "settle" /\ acct'.outcome # "ok") =>
          /\ \E k \in DOMAIN acct.pending :
                 /\ acct'.pending = RemoveAt(acct.pending, k)
                 /\ acct'.checked = ~acct.pending[k].isEnabled
          /\ acct'.toast = "error"
          /\ acct'.server = acct.server]_vars

C23_Witness ==
    /\ acct.op = "settle"
    /\ acct.outcome = "status"
    /\ acct.toast = "error"
    /\ ~acct.checked
    /\ ~acct.server
    /\ acct.pending = <<>>

\* C28: once every notification-settings request has settled, the checkbox
\* shows the value the server holds.
C28_CheckboxMatchesServer == (acct.pending = <<>>) => (acct.checked = acct.server)

\* C27: once every user-search response has arrived (no fetch is in flight
\* and none has failed), the container shows the results of the query in the
\* search box, and is empty when that query is shorter than 2 characters.
C27_ShowsLatestQuery ==
    (search.pending = <<>> /\ ~search.failed) =>
        search.shown = IF Len(search.query) < 2
                       THEN Cleared
                       ELSE displaySearchResults(search, UsersOf(search.query)).shown

\* C24: on the user channel, when the socket constructor succeeds and every
\* socket opens before it closes uncleanly, reconnectAttempts is 0 after each
\* open, each unclean close schedules its reconnect at 5000 ms (no other delay
\* is ever pending) and the connection-lost notice is never raised, however
\* many unclean closes have occurred.
C24_OpenThenDropNeverTerminal ==
    ws.urlOk =>
        /\ ws.notices = 0
        /\ \A k \in DOMAIN ws.timeouts : ws.timeouts[k] = reconnectInterval
        /\ (last.op = "ws.onopen" => ws.reconnectAttempts = 0)
        /\ (last.op = "ws.onclose" =>
               ws.timeouts = <<reconnectInterval>> /\ ws.reconnectAttempts = 1)

C24_Witness ==
    /\ ws.urlOk
    /\ cyc = MaxCycles
    /\ last.op = "ws.onclose"
    /\ ws.timeouts = <<reconnectInterval>>
    /\ ws.notices = 0

====
